---- MODULE Spec2Model ----
(***************************************************************************)
(* The `packs get` command of tunajam/packs (internal/commands/get.go):    *)
(* runGet resolves a pack reference, fetches its content through the gh    *)
(* tool and raw HTTP, and prints it or installs it as <dir>/<name>/SKILL.md *)
(* Spec follows whole invocations, SpecParse the resolution of every short *)
(* reference, SpecDetect the install in every environment the agent        *)
(* detection tells apart, and SpecApi the Client of package api.           *)
(*                                                                         *)
(* A Go string that the code parses is a sequence of one-character         *)
(* strings; file contents, which the code never inspects, are plain        *)
(* strings.                                                                *)
(***************************************************************************)
EXTENDS Integers, Sequences, FiniteSets, TLC

\* The number of runGet invocations followed in one behaviour.
MaxRuns == 2

-----------------------------------------------------------------------------
(* strings, path/filepath *)

HasPrefix(s, p) == Len(s) >= Len(p) /\ SubSeq(s, 1, Len(p)) = p

\* s[:n] and s[n:] of Go
Take(s, n) == SubSeq(s, 1, n)
Drop(s, n) == SubSeq(s, n + 1, Len(s))

\* strings.Index, 1-based; 0 when c does not occur (Go: -1)
Index(s, c) ==
    IF \E i \in 1..Len(s) : s[i] = c
    THEN CHOOSE i \in 1..Len(s) : s[i] = c /\ \A j \in 1..(i - 1) : s[j] # c
    ELSE 0

\* strings.LastIndex, 1-based; 0 when c does not occur
LastIndex(s, c) ==
    IF \E i \in 1..Len(s) : s[i] = c
    THEN CHOOSE i \in 1..Len(s) : s[i] = c /\ \A j \in (i + 1)..Len(s) : s[j] # c
    ELSE 0

\* strings.SplitN(s, c, n) for n >= 1: at most n pieces, the last one unsplit
RECURSIVE SplitN(_, _, _)
SplitN(s, c, n) ==
    LET i == Index(s, c)
    IN  IF n <= 1 \/ i = 0
        THEN <<s>>
        ELSE <<Take(s, i - 1)>> \o SplitN(Drop(s, i), c, n - 1)

Split(s, c) == SplitN(s, c, Len(s) + 1)

RECURSIVE TrimSlashes(_)
TrimSlashes(s) ==
    IF Len(s) > 0 /\ s[Len(s)] = "/" THEN TrimSlashes(Take(s, Len(s) - 1)) ELSE s

\* filepath.Base
Base(path) ==
    IF path = <<>> THEN <<".">>
    ELSE LET t == TrimSlashes(path)
             b == Drop(t, LastIndex(t, "/"))
         IN  IF b = <<>> THEN <<"/">> ELSE b

\* The lexical processing of filepath.Clean on the components of a path.
RECURSIVE CleanComps(_, _, _)
CleanComps(cs, stack, rooted) ==
    IF cs = <<>> THEN stack
    ELSE LET c == Head(cs)
             rest == Tail(cs)
         IN  IF c = <<>> \/ c = <<".">>
             THEN CleanComps(rest, stack, rooted)
             ELSE IF c = <<".", ".">>
             THEN IF Len(stack) > 0 /\ stack[Len(stack)] # <<".", ".">>
                  THEN CleanComps(rest, Take(stack, Len(stack) - 1), rooted)
                  ELSE IF rooted
                  THEN CleanComps(rest, stack, rooted)
                  ELSE CleanComps(rest, Append(stack, c), rooted)
             ELSE CleanComps(rest, Append(stack, c), rooted)

RECURSIVE JoinComps(_)
JoinComps(cs) ==
    IF cs = <<>> THEN <<>>
    ELSE IF Len(cs) = 1 THEN cs[1]
    ELSE cs[1] \o <<"/">> \o JoinComps(Tail(cs))

\* filepath.Clean
Clean(s) ==
    LET rooted == Len(s) > 0 /\ s[1] = "/"
        body == JoinComps(CleanComps(Split(s, "/"), <<>>, rooted))
    IN  IF rooted THEN <<"/">> \o body
        ELSE IF body = <<>> THEN <<".">> ELSE body

\* filepath.Join of two elements
Join(a, b) ==
    IF a # <<>> THEN Clean(a \o <<"/">> \o b)
    ELSE IF b # <<>> THEN Clean(b)
    ELSE <<>>

\* filepath.Dir of a clean path
Dir(p) ==
    LET i == LastIndex(p, "/")
    IN  IF i = 0 THEN <<".">>
        ELSE IF i = 1 THEN <<"/">>
        ELSE Take(p, i - 1)

-----------------------------------------------------------------------------
(* the filesystem: the directories that exist and the content of each file, *)
(* both keyed by clean path                                                 *)

RECURSIVE Ancestors(_)
Ancestors(p) ==
    IF p = <<".">> \/ p = <<"/">> THEN {p} ELSE {p} \cup Ancestors(Dir(p))

\* os.Stat(path) returns a nil error
StatOK(f, p) == p \in f.dirs \/ p \in DOMAIN f.files

dirExists(f, path) == Clean(path) \in f.dirs

fileExists(f, path) == Clean(path) \in DOMAIN f.files

\* os.MkdirAll: an error when the path or one of its parents is a file
MkdirAllOK(f, p) == \A q \in Ancestors(p) : q \notin DOMAIN f.files

\* MkdirAll that makes the directory afresh, dropping what was in it
MkdirAll_Fresh(f, p) ==
    LET Kept == {q \in DOMAIN f.files : p \notin Ancestors(q)}
    IN  [dirs |-> {d \in f.dirs : p \notin Ancestors(d)} \cup Ancestors(p),
         files |-> [q \in Kept |-> f.files[q]]]

MkdirAll(f, p) == [f EXCEPT !.dirs = @ \cup Ancestors(p)]

\* os.WriteFile (O_WRONLY|O_CREATE|O_TRUNC): an error when the path is a
\* directory or its parent is not one
WriteFileOK(f, p) == p \notin f.dirs /\ Dir(p) \in f.dirs

\* WriteFile without O_TRUNC semantics: an existing file keeps its content
WriteFile_KeepsExisting(f, p, c) ==
    LET old == f.files
    IN  [f EXCEPT !.files = [q \in DOMAIN old \cup {p} |->
                                IF q \in DOMAIN old THEN old[q] ELSE c]]

WriteFile(f, p, c) ==
    LET old == f.files
    IN  [f EXCEPT !.files = [q \in DOMAIN old \cup {p} |-> IF q = p THEN c ELSE old[q]]]

\* What the operating system can do to the install besides what the state of
\* the filesystem decides: nothing, fail the directory creation, fail the
\* opening of SKILL.md, fail the write after the file was opened and truncated.
Faults == {"none", "mkdir", "open", "write"}

-----------------------------------------------------------------------------
(* literals of get.go *)

GhPrefix == <<"g", "h", ":">>

SkillMd == <<"S", "K", "I", "L", "L", ".", "m", "d">>

RegistryPrefix == <<"t", "u", "n", "a", "j", "a", "m", "/", "p", "a", "c", "k", "s", "-", "r", "e", "g", "i", "s", "t", "r", "y", "/", "p", "a", "c", "k", "s", "/">>

Latest == <<"l", "a", "t", "e", "s", "t">>

\* contentFiles in another order
contentFiles_PromptFirst == <<"PROMPT.md", "SKILL.md", "CONTEXT.md">>

contentFiles == <<"SKILL.md", "CONTEXT.md", "PROMPT.md">>

\* TriedFiles as the message of the older single-file fetch would list them
TriedFiles_SkillOnly == <<"SKILL.md">>

\* The filenames the not-found message lists: "Tried: SKILL.md, CONTEXT.md, PROMPT.md"
TriedFiles == <<"SKILL.md", "CONTEXT.md", "PROMPT.md">>

\* os.UserHomeDir() of the environment followed here
Home == <<"/", "h">>

DotClaude == <<".", "c", "l", "a", "u", "d", "e">>

DotCodex == <<".", "c", "o", "d", "e", "x">>

DotCursor == <<".", "c", "u", "r", "s", "o", "r">>

DotPacks == <<".", "p", "a", "c", "k", "s">>

Skills == <<"s", "k", "i", "l", "l", "s">>

AgentsMd == <<"A", "G", "E", "N", "T", "S", ".", "m", "d">>

SoulMd == <<"S", "O", "U", "L", ".", "m", "d">>

\* detectAgentSkillsDir probing for Codex before the workspace markers
detectAgentSkillsDir_CodexFirst(f) ==
    IF dirExists(f, Join(Home, DotClaude)) THEN Join(Join(Home, DotClaude), Skills)
    ELSE IF dirExists(f, Join(Home, DotCodex)) THEN Join(Join(Home, DotCodex), Skills)
    ELSE IF dirExists(f, Skills) \/ fileExists(f, AgentsMd) \/ fileExists(f, SoulMd)
    THEN Skills
    ELSE IF dirExists(f, Join(Home, DotCursor)) THEN Join(Join(Home, DotCursor), Skills)
    ELSE Join(Join(Home, DotPacks), Skills)

detectAgentSkillsDir(f) ==
    IF dirExists(f, Join(Home, DotClaude)) THEN Join(Join(Home, DotClaude), Skills)
    ELSE IF dirExists(f, Skills) \/ fileExists(f, AgentsMd) \/ fileExists(f, SoulMd)
    THEN Skills
    ELSE IF dirExists(f, Join(Home, DotCodex)) THEN Join(Join(Home, DotCodex), Skills)
    ELSE IF dirExists(f, Join(Home, DotCursor)) THEN Join(Join(Home, DotCursor), Skills)
    ELSE Join(Join(Home, DotPacks), Skills)

-----------------------------------------------------------------------------
(* errors: the message's leading text, the value it names, and what else it lists *)

Err(kind, arg, extra) == [kind |-> kind, arg |-> arg, extra |-> extra]

NilErr == Err("nil", <<>>, <<>>)

\* "Expected format: @user/repo or @user/repo/path"
ExpectedFormat == <<"@user/repo", "@user/repo/path">>

ErrInvalidRef(ref) == Err("invalid GitHub reference", ref, ExpectedFormat)

ErrNotFound(ref) == Err("pack not found", ref, TriedFiles)

ErrRegistry(name, version) == Err("pack not found in registry", name, version)

ErrExists(packDir) == Err("pack already exists", packDir, <<>>)

ErrMkdir(packDir) == Err("failed to create directory", packDir, <<>>)

ErrWrite(skillPath) == Err("failed to write skill", skillPath, <<>>)

-----------------------------------------------------------------------------
(* runGet, lines 66-82: resolution of the reference *)

\* Normalize leaving the @ shorthand as it is
Normalize_KeepsAt(pack) == pack

\* Normalize @ to gh:
Normalize(pack) == IF HasPrefix(pack, <<"@">>) THEN GhPrefix \o Drop(pack, 1) ELSE pack

IsGitHubRef(pack) == HasPrefix(pack, GhPrefix)

\* ParseGitHub naming the pack after the repo even when a path is given
ParseGitHub_RepoAsName(ref) ==
    LET parts == SplitN(ref, "/", 3)
        valid == Len(parts) >= 2
        repo == IF valid THEN parts[2] ELSE <<>>
        path == IF Len(parts) > 2 THEN parts[3] ELSE <<>>
    IN  [valid |-> valid,
         user |-> parts[1],
         repo |-> repo,
         path |-> path,
         name |-> repo]

\* ParseGitHub without the test of line 129
ParseGitHub_AcceptsOwnerOnly(ref) ==
    LET parts == SplitN(ref, "/", 3)
        repo == IF Len(parts) >= 2 THEN parts[2] ELSE <<>>
        path == IF Len(parts) > 2 THEN parts[3] ELSE <<>>
    IN  [valid |-> TRUE,
         user |-> parts[1],
         repo |-> repo,
         path |-> path,
         name |-> IF path # <<>> THEN Base(path) ELSE repo]

\* getFromGitHub, lines 128-145
ParseGitHub(ref) ==
    LET parts == SplitN(ref, "/", 3)
        valid == Len(parts) >= 2
        repo == IF valid THEN parts[2] ELSE <<>>
        path == IF Len(parts) > 2 THEN parts[3] ELSE <<>>
    IN  [valid |-> valid,
         user |-> parts[1],
         repo |-> repo,
         path |-> path,
         name |-> IF path # <<>> THEN Base(path) ELSE repo]

\* ParseRegistry splitting at the last @
ParseRegistry_LastAt(pack) ==
    LET idx == LastIndex(pack, "@")
    IN  IF idx # 0
        THEN [name |-> Take(pack, idx - 1), version |-> Drop(pack, idx)]
        ELSE [name |-> pack, version |-> Latest]

\* getFromRegistry, lines 191-196
ParseRegistry(pack) ==
    LET idx == Index(pack, "@")
    IN  IF idx # 0
        THEN [name |-> Take(pack, idx - 1), version |-> Drop(pack, idx)]
        ELSE [name |-> pack, version |-> Latest]

\* getFromRegistry, line 200
RegistryRef(name) == RegistryPrefix \o name

NoCall ==
    [source |-> "none", ref |-> <<>>, valid |-> FALSE, user |-> <<>>, repo |-> <<>>,
     path |-> <<>>, ghName |-> <<>>, name |-> <<>>, version |-> <<>>]

\* The call of getFromGitHub that runGet makes, directly or through
\* getFromRegistry: its argument and what it parses, and for a registry
\* reference the name and version getFromRegistry parsed.
Resolve(pack) ==
    LET p == Normalize(pack)
    IN  IF IsGitHubRef(p)
        THEN LET ref == Drop(p, 3)
                 g == ParseGitHub(ref)
             IN  [source |-> "github", ref |-> ref, valid |-> g.valid,
                  user |-> g.user, repo |-> g.repo, path |-> g.path,
                  ghName |-> g.name, name |-> <<>>, version |-> <<>>]
        ELSE LET r == ParseRegistry(p)
                 ref == RegistryRef(r.name)
                 g == ParseGitHub(ref)
             IN  [source |-> "registry", ref |-> ref, valid |-> g.valid,
                  user |-> g.user, repo |-> g.repo, path |-> g.path,
                  ghName |-> g.name, name |-> r.name, version |-> r.version]

-----------------------------------------------------------------------------
(* inputs and environment *)

\* packs get gh:u/n, @u/r/p/q, gh:u, n, n@1
Packs ==
    { <<"g", "h", ":", "u", "/", "n">>,
      <<"@", "u", "/", "r", "/", "p", "/", "q">>,
      <<"g", "h", ":", "u">>,
      <<"n">>,
      <<"n", "@", "1">> }

\* --output: absent, or skills (which the agent detection probes for)
OutputDirs == { <<>>, Skills }

\* File contents a remote can serve; the empty one included.
Contents == {"", "a", "b"}

\* exec.Cmd.Output of `gh api ...`: the exit code and the standard output
ToolResults ==
    {[exit |-> 1, output |-> ""]} \cup {[exit |-> 0, output |-> c] : c \in Contents}

\* http.Get and io.ReadAll: a transport error, a status, the body, a read error
RawResults ==
    {[err |-> TRUE, status |-> 0, body |-> "", readErr |-> FALSE],
     [err |-> FALSE, status |-> 404, body |-> "", readErr |-> FALSE],
     [err |-> FALSE, status |-> 200, body |-> "", readErr |-> TRUE]}
    \cup {[err |-> FALSE, status |-> 200, body |-> c, readErr |-> FALSE] : c \in Contents}

NoResult == [err |-> FALSE, status |-> 0, body |-> "", readErr |-> FALSE]

\* `gh api` exits 1; the raw URL answers 404
ToolFailure == [exit |-> 1, output |-> ""]

RawNotFound == [err |-> FALSE, status |-> 404, body |-> "", readErr |-> FALSE]

\* The filesystem before the first invocation: the working directory, the
\* home directory, and the agent markers of the environment.
BaseFs(markerDirs, markerFiles) ==
    [dirs |-> {<<".">>, <<"/">>, Home} \cup markerDirs,
     files |-> [q \in markerFiles |-> ""]]

InitFilesystems == { BaseFs({}, {}) }

-----------------------------------------------------------------------------
(* state *)

VARIABLES
    fs,         \* the filesystem
    pc,         \* where the process is: idle (none runs), tool, raw, fetched, done,
                \* or blocked in a call that does not return
    args,       \* runGet's arguments: pack, outputDir, install, force
    call,       \* the getFromGitHub call of this invocation (Resolve)
    gh,         \* getFromGitHub: what ghInstalled() returned
    i,          \* getFromGitHub: the index into contentFiles of the loop being run
    log,        \* getFromGitHub: the fetch attempts made so far
    resp,       \* getFromGitHub: the response to the latest raw HTTP attempt
    fetched,    \* content and packName after the fetch, and the file it came from
    decision,   \* the output mode taken, isTerminal() and packDir
    out,        \* what this invocation printed on standard output
    ret,        \* the error runGet returned
    fs0,        \* the filesystem when this invocation started
    runs,       \* invocations started
    env,        \* the environment variables of the process
    client,     \* package api: the Client that New returned
    rpcs,       \* package api: the Telemetry RPCs sent on their own goroutine
    m,          \* tui.go: the model of the running program
    flights,    \* tui.go: the fetchPacks commands that have not delivered yet
    hist        \* tui.go: the key handled last, the mode it was pressed in and
                \* the pack that was under the cursor at the last selection

vars == <<fs, pc, args, call, gh, i, log, resp, fetched, decision, out, ret,
          fs0, runs, env, client, rpcs, m, flights, hist>>

\* What the api package holds; runGet touches none of it.
api == <<env, client, rpcs>>

\* What the TUI holds; only its own steps touch it.
tui == <<m, flights, hist>>

NoArgs == [pack |-> <<>>, outputDir |-> <<>>, install |-> FALSE, force |-> FALSE]

NoFetch == [content |-> "", name |-> <<>>, file |-> ""]

NoDecision == [mode |-> "none", terminal |-> FALSE, packDir |-> <<>>]

\* PACKS_SKILLS_DIR, PACKS_REGISTRY and PACKS_API_URL all unset
NoEnv == [skillsDir |-> <<>>, registry |-> "", apiURL |-> ""]

\* No Client was created.
NoClient == [baseURL |-> "", timeout |-> 0]

-----------------------------------------------------------------------------
(* tui.go: the model and its Update *)

pageSize == 15

\* The longest list the registry answers with in the navigation runs
\* (fetchPacks asks for at most 100).
MaxListLen == 31

\* The fetchPacks commands that may be in flight at once.
MaxFlights == 2

\* The longest text typed into the search input.
MaxQueryLen == 1

\* Go's integer division, which truncates toward zero
GoDiv(a, b) == IF a >= 0 THEN a \div b ELSE -((-a) \div b)

\* strings.ToLower, one character
LowerChar(c) ==
    LET UpperCase == <<"A", "B", "C", "D", "E", "F", "G", "H", "I", "J", "K", "L", "M", "N",
                      "O", "P", "Q", "R", "S", "T", "U", "V", "W", "X", "Y", "Z">>
        LowerCase == <<"a", "b", "c", "d", "e", "f", "g", "h", "i", "j", "k", "l", "m", "n",
                      "o", "p", "q", "r", "s", "t", "u", "v", "w", "x", "y", "z">>
    IN  IF \E k \in 1..26 : UpperCase[k] = c
        THEN LowerCase[CHOOSE k \in 1..26 : UpperCase[k] = c]
        ELSE c

ToLower(s) == [k \in 1..Len(s) |-> LowerChar(s[k])]

\* strings.Contains
Contains(s, sub) ==
    \E k \in 0..(Len(s) - Len(sub)) : SubSeq(s, k + 1, k + Len(sub)) = sub

Filters == {"all", "skill", "context", "prompt"}

Pack(name, description, packType) ==
    [name |-> name, description |-> description, packType |-> packType]

\* What the registry holds while the TUI runs: two skills and a context,
\* no prompt.
Catalog ==
    << Pack(<<"a">>, <<"B">>, "skill"),
       Pack(<<"b">>, <<"A">>, "skill"),
       Pack(<<"c">>, <<>>, "context") >>

\* What client.Search answers fetchPacks(filter) with: every pack for "all",
\* the packs of the type otherwise.
fetchPacks(filter) ==
    LET OfType(p) == filter = "all" \/ p.packType = filter
    IN  SelectSeq(Catalog, OfType)

NoErr == ""

\* m.selected is a pointer: <<>> is nil, <<p>> points to a copy of p.
initialModel ==
    [packs |-> <<>>, filtered |-> <<>>, cursor |-> 0, page |-> 0,
     selected |-> <<>>, mode |-> "list", searchInput |-> <<>>,
     searchQuery |-> <<>>, filter |-> "all", quitting |-> FALSE,
     loading |-> TRUE, err |-> NoErr]

\* Update, case packsLoadedMsg
UpdateLoaded(mm, packs) ==
    [mm EXCEPT !.packs = packs, !.filtered = packs, !.loading = FALSE,
               !.err = NoErr]

\* Update, case packsErrorMsg
UpdateError(mm, e) == [mm EXCEPT !.loading = FALSE, !.err = e]

\* The packs that applyFilters keeps for the query
Matching(packs, searchQuery) ==
    LET query == ToLower(searchQuery)
        Keeps(p) == \/ query = <<>>
                    \/ Contains(ToLower(p.name), query)
                    \/ Contains(ToLower(p.description), query)
    IN  SelectSeq(packs, Keeps)

applyFilters(mm) ==
    [mm EXCEPT !.filtered = Matching(mm.packs, mm.searchQuery),
               !.cursor = 0, !.page = 0]

\* textinput.Model.Update with the text cursor at the end: backspace deletes
\* the last character, a character key appends itself.
TextInput(value, key) ==
    IF key = "backspace"
    THEN IF value = <<>> THEN value ELSE Take(value, Len(value) - 1)
    ELSE value \o <<key>>

\* What Update hands back: the model and the command (nothing, tea.Quit, a
\* fetchPacks), or the panic of an index out of range.
Ret(mm, cmd) == [m |-> mm, cmd |-> cmd]

\* Update, a key in search mode
UpdateSearch(mm, key) ==
    IF key = "esc"
    THEN Ret([mm EXCEPT !.mode = "list"], "none")
    ELSE IF key = "enter"
    THEN Ret([applyFilters([mm EXCEPT !.searchQuery = mm.searchInput])
                 EXCEPT !.mode = "list"], "none")
    ELSE Ret([mm EXCEPT !.searchInput = TextInput(mm.searchInput, key)], "none")

\* Update, a key in detail mode
UpdateDetail(mm, key) ==
    IF key \in {"esc", "q", "backspace"}
    THEN Ret([mm EXCEPT !.mode = "list", !.selected = <<>>], "none")
    ELSE IF key \in {"enter", "g"} /\ mm.selected # <<>>
    THEN Ret([mm EXCEPT !.quitting = TRUE], "quit")
    ELSE Ret(mm, "none")

\* case "up", "k"
CursorUp(mm) ==
    IF mm.cursor > 0
    THEN LET c == mm.cursor - 1
         IN  [mm EXCEPT !.cursor = c,
                        !.page = IF c < mm.page * pageSize THEN mm.page - 1 ELSE mm.page]
    ELSE mm

\* CursorDown that leaves the page alone
CursorDown_KeepsPage(mm) ==
    IF mm.cursor < Len(mm.filtered) - 1
    THEN [mm EXCEPT !.cursor = mm.cursor + 1]
    ELSE mm

\* case "down", "j"
CursorDown(mm) ==
    IF mm.cursor < Len(mm.filtered) - 1
    THEN LET c == mm.cursor + 1
         IN  [mm EXCEPT !.cursor = c,
                        !.page = IF c >= (mm.page + 1) * pageSize THEN mm.page + 1
                                 ELSE mm.page]
    ELSE mm

\* case "left", "h", "pgup"
PrevPage(mm) ==
    IF mm.page > 0
    THEN [mm EXCEPT !.page = mm.page - 1, !.cursor = (mm.page - 1) * pageSize]
    ELSE mm

\* case "right", "l", "pgdown"
NextPage(mm) ==
    LET maxPage == GoDiv(Len(mm.filtered) - 1, pageSize)
    IN  IF mm.page < maxPage
        THEN [mm EXCEPT !.page = mm.page + 1, !.cursor = (mm.page + 1) * pageSize]
        ELSE mm

\* m.filtered[m.cursor] is inside the slice
InRange(mm) == 0 <= mm.cursor /\ mm.cursor < Len(mm.filtered)

\* case "1" .. "4"
SetFilter(mm, filter) ==
    Ret([mm EXCEPT !.filter = filter, !.loading = TRUE, !.cursor = 0, !.page = 0],
        filter)

FilterOfKey(key) ==
    IF key = "1" THEN "all"
    ELSE IF key = "2" THEN "skill"
    ELSE IF key = "3" THEN "context"
    ELSE "prompt"

\* Update, a key in list mode
UpdateList(mm, key) ==
    IF key \in {"ctrl+c", "q"} THEN Ret([mm EXCEPT !.quitting = TRUE], "quit")
    ELSE IF key \in {"up", "k"} THEN Ret(CursorUp(mm), "none")
    ELSE IF key \in {"down", "j"} THEN Ret(CursorDown(mm), "none")
    ELSE IF key \in {"left", "h", "pgup"} THEN Ret(PrevPage(mm), "none")
    ELSE IF key \in {"right", "l", "pgdown"} THEN Ret(NextPage(mm), "none")
    ELSE IF key = "enter"
    THEN IF Len(mm.filtered) > 0
         THEN IF InRange(mm)
              THEN Ret([mm EXCEPT !.selected = <<mm.filtered[mm.cursor + 1]>>,
                                  !.mode = "detail"], "none")
              ELSE Ret(mm, "panic")
         ELSE Ret(mm, "none")
    ELSE IF key = "g"
    THEN IF Len(mm.filtered) > 0
         THEN IF InRange(mm)
              THEN Ret([mm EXCEPT !.selected = <<mm.filtered[mm.cursor + 1]>>,
                                  !.quitting = TRUE], "quit")
              ELSE Ret(mm, "panic")
         ELSE Ret(mm, "none")
    ELSE IF key = "/" THEN Ret([mm EXCEPT !.mode = "search"], "none")
    ELSE IF key \in {"1", "2", "3", "4"} THEN SetFilter(mm, FilterOfKey(key))
    ELSE Ret(mm, "none")

\* Update, case tea.KeyMsg
UpdateKey(mm, key) ==
    IF mm.mode = "search" THEN UpdateSearch(mm, key)
    ELSE IF mm.mode = "detail" THEN UpdateDetail(mm, key)
    ELSE UpdateList(mm, key)

NavKeys == {"up", "k", "down", "j", "left", "h", "pgup", "right", "l", "pgdown"}

\* The keys pressed in list and detail mode
Keys == NavKeys \cup {"ctrl+c", "q", "enter", "g", "/", "1", "2", "3", "4", "esc",
                      "backspace"}

\* The keys pressed while the search input has the focus
SearchKeys == {"esc", "enter", "backspace", "a", "B", "q"}

NoFlights == [f \in Filters |-> 0]

\* Nothing was selected, and the program has not ended.
NoHist == [picked |-> <<>>, end |-> <<>>]

\* No command has run yet.
NothingRan ==
    /\ pc = "idle"
    /\ args = NoArgs
    /\ call = NoCall
    /\ gh = FALSE
    /\ i = 1
    /\ log = <<>>
    /\ resp = NoResult
    /\ fetched = NoFetch
    /\ decision = NoDecision
    /\ out = <<>>
    /\ ret = NilErr
    /\ runs = 0
    /\ client = NoClient
    /\ rpcs = <<>>
    /\ m = initialModel
    /\ flights = NoFlights
    /\ hist = NoHist

Init ==
    /\ fs \in InitFilesystems
    /\ fs0 = fs
    /\ env = NoEnv
    /\ NothingRan

-----------------------------------------------------------------------------
(* getFromGitHub, lines 147-186, and the returns through getFromRegistry    *)
(* (lines 201-206) and runGet (lines 84-86)                                 *)

\* FirstMechanism never using the gh CLI
FirstMechanism_AlwaysRaw(ghOK) == "raw"

\* line 151: the gh CLI is tried first when it is installed
FirstMechanism(ghOK) == IF ghOK THEN "tool" ELSE "raw"

\* ghGetContent returns a nil error (lines 269-274, tested at line 154)
ToolOK(r) == r.exit = 0

\* lines 171-183: the raw attempt returns the body
RawOK(r) == ~r.err /\ r.status = 200 /\ ~r.readErr

Attempt(mech, file, ok) ==
    [mech |-> mech, user |-> call.user, repo |-> call.repo, path |-> call.path,
     file |-> file, ok |-> ok]

\* getFromGitHub returns content: getFromRegistry returns it under the name it
\* parsed, and runGet goes on to the output mode.
FetchSucceeds(content) ==
    /\ fetched' = [content |-> content,
                   name |-> IF call.source = "registry" THEN call.name ELSE call.ghName,
                   file |-> contentFiles[i]]
    /\ pc' = "fetched"
    /\ UNCHANGED <<i, ret>>

\* getFromGitHub returns its not-found error: getFromRegistry replaces it by
\* its own, and runGet returns the error it got.
FetchFails ==
    /\ ret' = IF call.source = "registry"
              THEN ErrRegistry(call.name, call.version)
              ELSE ErrNotFound(call.ref)
    /\ pc' = "done"
    /\ UNCHANGED <<i, fetched>>

\* `packs get` is run: runGet is called, the reference is resolved and
\* getFromGitHub is entered.
runGet(pack, outputDir, install, force, ghOK) ==
    /\ runs < MaxRuns
    /\ runs' = runs + 1
    /\ args' = [pack |-> pack, outputDir |-> outputDir, install |-> install,
                force |-> force]
    /\ call' = Resolve(pack)
    /\ fs0' = fs
    /\ i' = 1
    /\ log' = <<>>
    /\ resp' = NoResult
    /\ fetched' = NoFetch
    /\ decision' = NoDecision
    /\ out' = <<>>
    /\ IF call'.valid
       THEN /\ gh' = ghOK
            /\ pc' = FirstMechanism(ghOK)
            /\ ret' = NilErr
       ELSE /\ gh' = FALSE
            /\ pc' = "done"
            /\ ret' = ErrInvalidRef(call'.ref)
    /\ UNCHANGED <<fs, api, tui>>

\* The get command calls runGet with its argument and flags.
Invoke(pack, outputDir, install, force, ghOK) ==
    /\ pc = "idle"
    /\ runGet(pack, outputDir, install, force, ghOK)

\* One turn of the loop of lines 152-157.
ToolAttempt(r) ==
    /\ pc = "tool"
    /\ log' = Append(log, Attempt("tool", contentFiles[i], ToolOK(r)))
    /\ IF ToolOK(r)
       THEN FetchSucceeds(r.output)
       ELSE /\ IF i < Len(contentFiles)
               THEN i' = i + 1 /\ pc' = "tool"
               ELSE i' = 1 /\ pc' = "raw"
            /\ UNCHANGED <<fetched, ret>>
    /\ UNCHANGED <<fs, args, gh, call, resp, decision, out, fs0, runs, api, tui>>

\* One turn of the loop of lines 161-184, and line 186 after the last one.
RawAttempt(r) ==
    /\ pc = "raw"
    /\ log' = Append(log, Attempt("raw", contentFiles[i], RawOK(r)))
    /\ resp' = r
    /\ IF RawOK(r)
       THEN FetchSucceeds(r.body)
       ELSE IF i < Len(contentFiles)
       THEN i' = i + 1 /\ pc' = "raw" /\ UNCHANGED <<fetched, ret>>
       ELSE FetchFails
    /\ UNCHANGED <<fs, args, gh, call, decision, out, fs0, runs, api, tui>>

\* `gh api` (cmd.Output, line 269) or the remote of http.Get (line 171, the
\* default client) never answers. Neither call is given a timeout, a deadline
\* or a context, so it does not return and runGet stays where it is.
NeverAnswered ==
    /\ pc \in {"tool", "raw"}
    /\ pc' = "blocked"
    /\ UNCHANGED <<fs, args, call, gh, i, log, resp, fetched, decision, out, ret,
                   fs0, runs, api, tui>>

-----------------------------------------------------------------------------
(* runGet, lines 88-123: the output mode and the install *)

\* PrintToStdout with the --install flag forgotten
PrintToStdout_IgnoresInstall(isPiped, outputDir, install) == isPiped /\ outputDir = <<>>

\* line 91
PrintToStdout(isPiped, outputDir, install) == isPiped /\ outputDir = <<>> /\ ~install

\* lines 98-101
InstallPath(f, outputDir) ==
    IF outputDir = <<>> THEN detectAgentSkillsDir(f) ELSE outputDir

\* line 104
PackDir(installPath, packName) == Join(installPath, packName)

\* AlreadyExists with the test of --force inverted
AlreadyExists_ForceInverted(f, packDir, force) == StatOK(f, packDir) /\ force

\* line 107: the pack directory exists and --force was not given
AlreadyExists(f, packDir, force) == StatOK(f, packDir) /\ ~force

\* line 117
SkillPath(packDir) == Join(packDir, SkillMd)

Printed(content) == [kind |-> "content", text |-> content, name |-> <<>>, dir |-> <<>>]

InstalledLine(packName, packDir) ==
    [kind |-> "installed", text |-> "", name |-> packName, dir |-> packDir]

Outcome(f, o, e, mode, packDir) ==
    [fs |-> f, out |-> o, ret |-> e, mode |-> mode, packDir |-> packDir]

\* lines 116-123, after the directory was created
WriteSkill(made, content, packName, fault, packDir, skillPath) ==
    IF ~WriteFileOK(made, skillPath) \/ fault = "open"
    THEN Outcome(made, <<>>, ErrWrite(skillPath), "disk", packDir)
    ELSE IF fault = "write"
    THEN Outcome(WriteFile(made, skillPath, ""), <<>>, ErrWrite(skillPath),
                 "disk", packDir)
    ELSE Outcome(WriteFile(made, skillPath, content),
                 <<InstalledLine(packName, packDir)>>, NilErr, "disk", packDir)

\* lines 106-123, the install into packDir
WriteToDisk(f, force, content, packName, fault, packDir) ==
    IF AlreadyExists(f, packDir, force)
    THEN Outcome(f, <<>>, ErrExists(packDir), "disk", packDir)
    ELSE IF ~MkdirAllOK(f, packDir) \/ fault = "mkdir"
    THEN Outcome(f, <<>>, ErrMkdir(packDir), "disk", packDir)
    ELSE WriteSkill(MkdirAll(f, packDir), content, packName, fault, packDir,
                    SkillPath(packDir))

\* lines 88-123 on filesystem f: the filesystem left behind, what was printed,
\* the error returned, the mode taken and the pack directory.
Install(f, a, content, packName, isTerminal, fault) ==
    IF PrintToStdout(~isTerminal, a.outputDir, a.install)
    THEN Outcome(f, <<Printed(content)>>, NilErr, "print", <<>>)
    ELSE WriteToDisk(f, a.force, content, packName, fault,
                     PackDir(InstallPath(f, a.outputDir), packName))

Returns(o, isTerminal) ==
    /\ fs' = o.fs
    /\ out' = o.out
    /\ ret' = o.ret
    /\ decision' = [mode |-> o.mode, terminal |-> isTerminal, packDir |-> o.packDir]

\* The rest of runGet after a successful fetch. What getFromGitHub held is
\* kept up to here and gone afterwards.
Finish(isTerminal, fault) ==
    /\ pc = "fetched"
    /\ Returns(Install(fs, args, fetched.content, fetched.name, isTerminal, fault),
               isTerminal)
    /\ pc' = "done"
    /\ gh' = FALSE
    /\ i' = 1
    /\ log' = <<>>
    /\ resp' = NoResult
    /\ UNCHANGED <<args, call, fetched, fs0, runs, api, tui>>

\* The process exits with what runGet returned; only the filesystem outlives it.
Exit ==
    /\ pc = "done"
    /\ pc' = "idle"
    /\ args' = NoArgs
    /\ call' = NoCall
    /\ gh' = FALSE
    /\ i' = 1
    /\ log' = <<>>
    /\ resp' = NoResult
    /\ fetched' = NoFetch
    /\ decision' = NoDecision
    /\ out' = <<>>
    /\ ret' = NilErr
    /\ fs0' = fs
    /\ UNCHANGED <<fs, runs, api, tui>>

Next ==
    \/ \E pack \in Packs, outputDir \in OutputDirs, install \in BOOLEAN,
          force \in BOOLEAN, ghOK \in BOOLEAN :
          Invoke(pack, outputDir, install, force, ghOK)
    \/ \E r \in ToolResults : ToolAttempt(r)
    \/ \E r \in RawResults : RawAttempt(r)
    \/ NeverAnswered
    \/ \E isTerminal \in BOOLEAN, fault \in Faults : Finish(isTerminal, fault)
    \/ Exit

Spec == Init /\ [][Next]_vars

-----------------------------------------------------------------------------
(* runGet on every short reference: what lines 66-82 and 126-145, 189-196  *)
(* make of the argument. The fetch itself finds nothing here.              *)

\* The longest remainder of a reference followed.
MaxRefLen == 5

\* The two characters the code looks for, and a name character.
Letters == {"a", "/", "@"}

RECURSIVE Strings(_)
Strings(n) ==
    IF n = 0 THEN { <<>> }
    ELSE LET shorter == Strings(n - 1)
         IN  shorter \cup {Append(t, c) : t \in shorter, c \in Letters}

\* packs get @r, gh:r and r
Refs == {p \o r : p \in { <<"@">>, GhPrefix, <<>> }, r \in Strings(MaxRefLen)}

NextParse ==
    \/ \E pack \in Refs, ghOK \in BOOLEAN : Invoke(pack, <<>>, FALSE, FALSE, ghOK)
    \/ ToolAttempt(ToolFailure)
    \/ RawAttempt(RawNotFound)
    \/ Exit

SpecParse == Init /\ [][NextParse]_vars

-----------------------------------------------------------------------------
(* runGet in every environment detectAgentSkillsDir can tell apart: each     *)
(* marker absent, a directory or a regular file                              *)

Kinds == {"absent", "dir", "file"}

\* The paths among ps whose kind is k
OfKind(ps, k) == {q \in DOMAIN ps : ps[q] = k}

MarkerFs(ps) == BaseFs(OfKind(ps, "dir"), OfKind(ps, "file"))

\* ~/.claude, ~/.codex, ~/.cursor, ./skills, ./AGENTS.md, ./SOUL.md
Markers ==
    {Join(Home, DotClaude), Join(Home, DotCodex), Join(Home, DotCursor),
     Skills, AgentsMd, SoulMd}

DetectFilesystems == {MarkerFs(ps) : ps \in [Markers -> Kinds]}

\* PACKS_SKILLS_DIR unset, or /x
DetectEnvironments ==
    [skillsDir : { <<>>, <<"/", "x">> }, registry : {""}, apiURL : {""}]

\* packs get gh:u/n
DetectPack == <<"g", "h", ":", "u", "/", "n">>

\* The raw URL answers 200 with the content
RawFound == [err |-> FALSE, status |-> 200, body |-> "a", readErr |-> FALSE]

InitDetect ==
    /\ fs \in DetectFilesystems
    /\ fs0 = fs
    /\ env \in DetectEnvironments
    /\ NothingRan

NextDetect ==
    \/ \E outputDir \in OutputDirs, install \in BOOLEAN :
          Invoke(DetectPack, outputDir, install, FALSE, FALSE)
    \/ RawAttempt(RawFound)
    \/ \E isTerminal \in BOOLEAN : Finish(isTerminal, "none")
    \/ Exit

SpecDetect == InitDetect /\ [][NextDetect]_vars

-----------------------------------------------------------------------------
(* package api: New and Client.Telemetry, and a command that holds a Client *)

\* The Telemetry calls followed in one behaviour.
MaxEvents == 2

\* DefaultBaseURL
DefaultBaseURL == "https://packs-api.fly.dev"

\* http.Client.Timeout of the client New builds, in seconds
ClientTimeout == 30

\* New, lines 25-38: the base URL is PACKS_API_URL when set, else the default
New(e) ==
    [baseURL |-> IF e.apiURL = "" THEN DefaultBaseURL ELSE e.apiURL,
     timeout |-> ClientTimeout]

\* The environments a command is started in
Environments ==
    [skillsDir : { <<>> },
     registry : {"", "https://registry.example"},
     apiURL : {"", "https://api.example"}]

\* pack and source of a TelemetryEvent
EventPacks == { <<"n">>, <<"q">> }

EventSources == {"registry", "github"}

\* How the RPC on its goroutine can end; one that hangs never does
RpcOutcomes == {"ok", "failed"}

\* AfterRpc handing the failure of the RPC to the caller
AfterRpc_Surfaced(outcome, e) ==
    IF outcome = "failed" THEN Err("telemetry failed", <<>>, <<>>) ELSE e

\* line 169: the go statement drops what client.Telemetry returns; the error
\* e of the caller's own operation is what it was
AfterRpc(outcome, e) == e

InitApi ==
    /\ fs \in InitFilesystems
    /\ fs0 = fs
    /\ env \in Environments
    /\ NothingRan

\* A command (runFind, runSubmit, fetchPacks) creates its client.
NewClient ==
    /\ pc = "idle"
    /\ pc' = "api"
    /\ client' = New(env)
    /\ UNCHANGED <<fs, args, call, gh, i, log, resp, fetched, decision, out, ret,
                   fs0, runs, env, rpcs, tui>>

\* Client.Telemetry, lines 158-170: the request is built, the RPC is started on
\* a goroutine of its own and the call returns.
Telemetry(pack, source) ==
    /\ pc = "api"
    /\ Len(rpcs) < MaxEvents
    /\ rpcs' = Append(rpcs, [pack |-> pack, source |-> source, status |-> "sent"])
    /\ UNCHANGED <<fs, pc, args, call, gh, i, log, resp, fetched, decision, out,
                   ret, fs0, runs, env, client, tui>>

\* The RPC of goroutine k ends.
RpcEnds(k, outcome) ==
    /\ k \in 1..Len(rpcs)
    /\ rpcs[k].status = "sent"
    /\ rpcs' = [rpcs EXCEPT ![k].status = outcome]
    /\ ret' = AfterRpc(outcome, ret)
    /\ UNCHANGED <<fs, pc, args, call, gh, i, log, resp, fetched, decision, out,
                   fs0, runs, env, client, tui>>

\* The command returns and the process exits; its goroutines end with it.
CommandEnds ==
    /\ pc = "api"
    /\ pc' = "idle"
    /\ client' = NoClient
    /\ rpcs' = <<>>
    /\ UNCHANGED <<fs, args, call, gh, i, log, resp, fetched, decision, out, ret,
                   fs0, runs, env, tui>>

NextApi ==
    \/ NewClient
    \/ \E pack \in EventPacks, source \in EventSources : Telemetry(pack, source)
    \/ \E k \in 1..MaxEvents, outcome \in RpcOutcomes : RpcEnds(k, outcome)
    \/ CommandEnds

SpecApi == InitApi /\ [][NextApi]_vars

-----------------------------------------------------------------------------
(* tui.go: the program *)

\* RunTUI starts the program: initialModel, and Init issues fetchPacks("all").
StartTUI ==
    /\ pc = "idle"
    /\ pc' = "tui"
    /\ m' = initialModel
    /\ flights' = [NoFlights EXCEPT !["all"] = 1]
    /\ hist' = NoHist
    /\ UNCHANGED <<fs, args, call, gh, i, log, resp, fetched, decision, out, ret,
                   fs0, runs, api>>

\* A key is pressed and Update handles it: the program goes on, ends with
\* tea.Quit, or dies of the panic; a fetchPacks that Update returns is started.
Key(key) ==
    /\ pc = "tui"
    /\ IF m.mode = "search"
       THEN /\ key \in SearchKeys
            /\ key \in {"a", "B", "q"} => Len(m.searchInput) < MaxQueryLen
       ELSE key \in Keys
    /\ LET u == UpdateKey(m, key)
           ends == u.cmd \in {"quit", "panic"}
           selects == m.mode = "list" /\ key \in {"enter", "g"} /\ InRange(m)
       IN  /\ u.cmd \in Filters =>
                 flights["all"] + flights["skill"] + flights["context"]
                    + flights["prompt"] < MaxFlights
           /\ m' = u.m
           /\ flights' = IF u.cmd \in Filters
                         THEN [flights EXCEPT ![u.cmd] = @ + 1]
                         ELSE flights
           /\ pc' = IF u.cmd = "quit" THEN "tuiquit"
                    ELSE IF u.cmd = "panic" THEN "panic"
                    ELSE "tui"
           /\ hist' = [picked |-> IF selects THEN <<m.filtered[m.cursor + 1]>>
                                  ELSE hist.picked,
                       end |-> IF ends
                               THEN <<[key |-> key, mode |-> m.mode,
                                       listed |-> Len(m.filtered)]>>
                               ELSE <<>>]
    /\ UNCHANGED <<fs, args, call, gh, i, log, resp, fetched, decision, out, ret,
                   fs0, runs, api>>

\* The message of a fetch arrives while the program runs.
Arrives(filter, mm) ==
    /\ pc = "tui"
    /\ flights[filter] > 0
    /\ flights' = [flights EXCEPT ![filter] = @ - 1]
    /\ m' = mm
    /\ UNCHANGED <<fs, pc, args, call, gh, i, log, resp, fetched, decision, out,
                   ret, fs0, runs, api, hist>>

\* fetchPacks(filter) delivers its packsLoadedMsg.
Loaded(filter) == Arrives(filter, UpdateLoaded(m, fetchPacks(filter)))

\* fetchPacks(filter) delivers its packsErrorMsg.
Failed(filter) == Arrives(filter, UpdateError(m, "search failed"))

\* The first fetch delivers a registry answer of n packs.
LoadedMany(n) ==
    Arrives("all", UpdateLoaded(m, [k \in 1..n |-> Pack(<<"a">>, <<>>, "skill")]))

\* p.Run returned the final model: RunTUI runs get for the selected pack,
\* if there is one.
AfterTUI(ghOK) ==
    /\ pc = "tuiquit"
    /\ IF m.selected # <<>>
       THEN runGet(m.selected[1].name, <<>>, FALSE, FALSE, ghOK)
       ELSE /\ pc' = "done"
            /\ UNCHANGED <<fs, args, call, gh, i, log, resp, fetched, decision,
                           out, ret, fs0, runs, api, tui>>

NextTui ==
    \/ StartTUI
    \/ \E key \in Keys \cup SearchKeys : Key(key)
    \/ \E filter \in Filters : Loaded(filter)
    \/ \E filter \in Filters : Failed(filter)
    \/ \E ghOK \in BOOLEAN : AfterTUI(ghOK)
    \/ ToolAttempt(ToolFailure)
    \/ RawAttempt(RawNotFound)

SpecTui == Init /\ [][NextTui]_vars

\* The list view over registry answers of every length, driven by the
\* navigation keys only.
NextNav ==
    \/ StartTUI
    \/ \E n \in 0..MaxListLen : LoadedMany(n)
    \/ \E key \in NavKeys : Key(key)

SpecNav == Init /\ [][NextNav]_vars

-----------------------------------------------------------------------------
(* find.go and submit.go *)

\* The largest --limit given to find.
MaxLimit == 3

getDemoPacks ==
    << Pack(<<"c", "o", "m", "m", "i", "t", "-", "m", "e", "s", "s", "a", "g", "e">>,
            <<"G", "e", "n", "e", "r", "a", "t", "e", " ", "c", "o", "n", "v", "e",
              "n", "t", "i", "o", "n", "a", "l", " ", "c", "o", "m", "m", "i", "t",
              " ", "m", "e", "s", "s", "a", "g", "e", "s">>,
            "skill"),
       Pack(<<"p", "r", "-", "d", "e", "s", "c", "r", "i", "p", "t", "i", "o", "n">>,
            <<"W", "r", "i", "t", "e", " ", "P", "R", " ", "d", "e", "s", "c", "r",
              "i", "p", "t", "i", "o", "n", "s", " ", "f", "r", "o", "m", " ", "b",
              "r", "a", "n", "c", "h", " ", "d", "i", "f", "f">>,
            "skill"),
       Pack(<<"h", "u", "m", "a", "n", "i", "z", "e", "r">>,
            <<"R", "e", "m", "o", "v", "e", " ", "A", "I", " ", "p", "a", "t", "t",
              "e", "r", "n", "s", " ", "f", "r", "o", "m", " ", "w", "r", "i", "t",
              "i", "n", "g">>,
            "skill"),
       Pack(<<"c", "l", "a", "u", "d", "e", "c", "e", "p", "t", "i", "o", "n">>,
            <<"E", "x", "t", "r", "a", "c", "t", " ", "l", "e", "a", "r", "n", "i",
              "n", "g", "s", " ", "i", "n", "t", "o", " ", "r", "e", "u", "s", "a",
              "b", "l", "e", " ", "s", "k", "i", "l", "l", "s">>,
            "skill"),
       Pack(<<"t", "e", "s", "t", "-", "d", "r", "i", "v", "e", "n", "-", "d", "e",
              "v", "e", "l", "o", "p", "m", "e", "n", "t">>,
            <<"T", "D", "D", " ", "w", "o", "r", "k", "f", "l", "o", "w", " ", "f",
              "o", "r", " ", "f", "e", "a", "t", "u", "r", "e", "s", " ", "a", "n",
              "d", " ", "b", "u", "g", "f", "i", "x", "e", "s">>,
            "skill"),
       Pack(<<"b", "r", "a", "i", "n", "s", "t", "o", "r", "m", "i", "n", "g">>,
            <<"S", "t", "r", "u", "c", "t", "u", "r", "e", "d", " ", "i", "d", "e",
              "a", "t", "i", "o", "n", " ", "a", "n", "d", " ", "d", "e", "s", "i",
              "g", "n", " ", "e", "x", "p", "l", "o", "r", "a", "t", "i", "o", "n">>,
            "skill"),
       Pack(<<"c", "h", "a", "n", "g", "e", "l", "o", "g", "-", "g", "e", "n", "e",
              "r", "a", "t", "o", "r">>,
            <<"G", "e", "n", "e", "r", "a", "t", "e", " ", "c", "h", "a", "n", "g",
              "e", "l", "o", "g", "s", " ", "f", "r", "o", "m", " ", "g", "i", "t",
              " ", "h", "i", "s", "t", "o", "r", "y">>,
            "skill"),
       Pack(<<"g", "i", "t", "-", "w", "o", "r", "k", "t", "r", "e", "e", "s">>,
            <<"W", "o", "r", "k", " ", "w", "i", "t", "h", " ", "i", "s", "o", "l",
              "a", "t", "e", "d", " ", "g", "i", "t", " ", "w", "o", "r", "k", "t",
              "r", "e", "e", "s">>,
            "skill"),
       Pack(<<"r", "e", "a", "c", "t", "-", "q", "u", "e", "r", "y">>,
            <<"R", "e", "a", "c", "t", " ", "Q", "u", "e", "r", "y", " ", "p", "a",
              "t", "t", "e", "r", "n", "s", " ", "a", "n", "d", " ", "b", "e", "s",
              "t", " ", "p", "r", "a", "c", "t", "i", "c", "e", "s">>,
            "context"),
       Pack(<<"d", "r", "i", "z", "z", "l", "e", "-", "o", "r", "m">>,
            <<"D", "r", "i", "z", "z", "l", "e", " ", "O", "R", "M", " ", "c", "o",
              "n", "v", "e", "n", "t", "i", "o", "n", "s", " ", "a", "n", "d", " ",
              "p", "a", "t", "t", "e", "r", "n", "s">>,
            "context"),
       Pack(<<"m", "c", "p", "-", "b", "u", "i", "l", "d", "e", "r">>,
            <<"B", "u", "i", "l", "d", " ", "M", "C", "P", " ", "s", "e", "r", "v",
              "e", "r", "s", " ", "f", "o", "r", " ", "L", "L", "M", " ", "i", "n",
              "t", "e", "g", "r", "a", "t", "i", "o", "n", "s">>,
            "skill"),
       Pack(<<"y", "o", "u", "t", "u", "b", "e", "-", "t", "r", "a", "n", "s", "c",
              "r", "i", "p", "t">>,
            <<"F", "e", "t", "c", "h", " ", "a", "n", "d", " ", "s", "u", "m", "m",
              "a", "r", "i", "z", "e", " ", "Y", "o", "u", "T", "u", "b", "e", " ",
              "t", "r", "a", "n", "s", "c", "r", "i", "p", "t", "s">>,
            "skill") >>

\* packs find: nothing, git in both cases, a description word, a name that
\* is a type as well, two words, and a word no pack has
Queries ==
    { <<>>, <<"g", "i", "t">>, <<"G", "I", "T">>, <<"s", "k", "i", "l", "l">>,
      <<"R", "e", "a", "c", "t", " ", "q">>, <<"f", "r", "o", "m">>,
      <<"z", "z">> }

\* --type: absent, the three types, and one that no pack has
PackTypes == {"", "skill", "context", "prompt", "Skill"}

\* --limit
Limits == (-1)..MaxLimit

\* What the registry answers a search with when it answers
SearchAnswers == { <<>>, <<Pack(<<"n">>, <<"d">>, "skill")>> }

\* lines 139-149 of runFindOffline
FilterByQuery(packs, query) ==
    IF query # <<>>
    THEN LET q == ToLower(query)
             Hit(p) == \/ Contains(ToLower(p.name), q)
                       \/ Contains(ToLower(p.description), q)
         IN  SelectSeq(packs, Hit)
    ELSE packs

\* lines 152-160 of runFindOffline
FilterByType(packs, packType) ==
    IF packType # ""
    THEN LET Same(p) == p.packType = packType
         IN  SelectSeq(packs, Same)
    ELSE packs

\* ApplyLimit that cuts at every limit
ApplyLimit_Always(packs, limit) ==
    IF Len(packs) > limit THEN SubSeq(packs, 1, limit) ELSE packs

\* lines 163-165 of runFindOffline
ApplyLimit(packs, limit) ==
    IF limit > 0 /\ Len(packs) > limit THEN SubSeq(packs, 1, limit) ELSE packs

\* What find puts on stdout: the packs it lists, as JSON or as a table, from
\* the registry or from the demo data.
Listing(packs, jsonOutput, offline) ==
    [packs |-> packs, json |-> jsonOutput, offline |-> offline]

runFindOffline(query, packType, limit, jsonOutput) ==
    Listing(ApplyLimit(FilterByType(FilterByQuery(getDemoPacks, query), packType),
                       limit),
            jsonOutput, TRUE)

\* packs find: runFind creates its client and calls client.Search.
Find(query, packType, limit, jsonOutput) ==
    /\ pc = "idle"
    /\ pc' = "search"
    /\ args' = [cmd |-> "find", query |-> query, packType |-> packType,
                limit |-> limit, json |-> jsonOutput]
    /\ client' = New(env)
    /\ log' = <<[rpc |-> "Search", query |-> query, packType |-> packType,
                 limit |-> limit, sort |-> "stars"]>>
    /\ out' = <<>>
    /\ ret' = NilErr
    /\ UNCHANGED <<fs, call, gh, i, resp, fetched, decision, fs0, runs, env, rpcs,
                   tui>>

\* client.Search returns: its packs are listed, or, when it failed,
\* runFindOffline answers.
SearchEnds(ok, answer) ==
    /\ pc = "search"
    /\ pc' = "done"
    /\ resp' = [rpc |-> "Search", ok |-> ok]
    /\ out' = IF ok
              THEN <<Listing(answer, args.json, FALSE)>>
              ELSE <<runFindOffline(args.query, args.packType, args.limit, args.json)>>
    /\ ret' = NilErr
    /\ UNCHANGED <<fs, args, call, gh, i, log, fetched, decision, fs0, runs, api,
                   tui>>

\* "Expected format: @user/repo/path or gh:user/repo/path"
ErrSubmitRef(ref) ==
    Err("invalid reference", ref, <<"@user/repo/path", "gh:user/repo/path">>)

ErrSubmit(ref) == Err("failed to submit", ref, <<>>)

\* lines 60-64 of runSubmit
StripPrefix(ref) ==
    IF HasPrefix(ref, <<"@">>) THEN Drop(ref, 1)
    ELSE IF HasPrefix(ref, GhPrefix) THEN Drop(ref, 3)
    ELSE ref

\* ValidSubmit that takes the root-level form of get
ValidSubmit_RootLevel(ref) == Len(SplitN(ref, "/", 3)) >= 2

\* lines 67-70 of runSubmit
ValidSubmit(ref) == Len(SplitN(ref, "/", 3)) >= 3

\* packs submit: runSubmit strips the prefix and validates; a valid reference
\* is sent with client.Submit.
Submit(arg) ==
    /\ pc = "idle"
    /\ args' = [cmd |-> "submit", ref |-> arg]
    /\ out' = <<>>
    /\ LET ref == StripPrefix(arg)
       IN  IF ValidSubmit(ref)
           THEN /\ pc' = "submit"
                /\ client' = New(env)
                /\ log' = <<[rpc |-> "Submit", githubRef |-> ref]>>
                /\ ret' = NilErr
           ELSE /\ pc' = "done"
                /\ client' = NoClient
                /\ log' = <<>>
                /\ ret' = ErrSubmitRef(ref)
    /\ UNCHANGED <<fs, call, gh, i, resp, fetched, decision, fs0, runs, env, rpcs,
                   tui>>

\* client.Submit returns.
SubmitEnds(ok) ==
    /\ pc = "submit"
    /\ pc' = "done"
    /\ resp' = [rpc |-> "Submit", ok |-> ok]
    /\ ret' = IF ok THEN NilErr ELSE ErrSubmit(log[1].githubRef)
    /\ UNCHANGED <<fs, args, call, gh, i, log, fetched, decision, out, fs0, runs,
                   api, tui>>

NextCli ==
    \/ \E query \in Queries, packType \in PackTypes, limit \in Limits,
          jsonOutput \in BOOLEAN : Find(query, packType, limit, jsonOutput)
    \/ \E ok \in BOOLEAN, answer \in SearchAnswers : SearchEnds(ok, answer)
    \/ \E arg \in Refs : Submit(arg)
    \/ \E ok \in BOOLEAN : SubmitEnds(ok)
    \/ Exit

SpecCli == Init /\ [][NextCli]_vars

-----------------------------------------------------------------------------
(* runGet installing: references whose name is not a plain component, and   *)
(* pack directories that hold more than SKILL.md                            *)

\* packs get gh:u/n, gh:u/r/.., gh:u/r/., gh:u/, a/b, ..
InstallPacks ==
    { <<"g", "h", ":", "u", "/", "n">>,
      <<"g", "h", ":", "u", "/", "r", "/", ".", ".">>,
      <<"g", "h", ":", "u", "/", "r", "/", ".">>,
      <<"g", "h", ":", "u", "/">>,
      <<"a", "/", "b">>,
      <<".", ".">> }

\* Where gh:u/n goes without --output when no agent is detected
DefaultPackDir == Join(Join(Join(Home, DotPacks), Skills), <<"n">>)

\* A pack directory that was installed before and then worked in: SKILL.md
\* with the content b, a file notes, a subdirectory sub with a file k; and a
\* file o in the home directory.
Populated ==
    [dirs |-> BaseFs({}, {}).dirs \cup Ancestors(Join(DefaultPackDir, <<"s", "u", "b">>)),
     files |-> (Join(DefaultPackDir, SkillMd) :> "b")
               @@ (Join(DefaultPackDir, <<"n", "o", "t", "e", "s">>) :> "a")
               @@ (Join(Join(DefaultPackDir, <<"s", "u", "b">>), <<"k">>) :> "b")
               @@ (Join(Home, <<"o">>) :> "a")]

InitInstall ==
    /\ fs \in { BaseFs({}, {}), Populated }
    /\ fs0 = fs
    /\ env = NoEnv
    /\ NothingRan

NextInstall ==
    \/ \E pack \in InstallPacks, outputDir \in OutputDirs, install \in BOOLEAN,
          force \in BOOLEAN : Invoke(pack, outputDir, install, force, FALSE)
    \/ RawAttempt(RawFound)
    \/ \E isTerminal \in BOOLEAN : Finish(isTerminal, "none")
    \/ Exit

SpecInstall == InitInstall /\ [][NextInstall]_vars

-----------------------------------------------------------------------------
(* properties *)

\* runGet got past the fetch and has returned
Finished == pc = "done" /\ fetched.file # ""

\* stdout is piped, no --output, no --install
PipedPlain == ~decision.terminal /\ args.outputDir = <<>> /\ ~args.install

PrintedOnly == out = <<Printed(fetched.content)>> /\ fs = fs0

IOFailed(e) == e.kind \in {"failed to create directory", "failed to write skill"}

Holds(f, p, c) == p \in DOMAIN f.files /\ f.files[p] = c

\* What the write-to-disk path can end in.
TookDiskPath ==
    \/ ret = ErrExists(decision.packDir)
    \/ IOFailed(ret)
    \/ /\ ret = NilErr
       /\ out = <<InstalledLine(fetched.name, decision.packDir)>>
       /\ Holds(fs, SkillPath(decision.packDir), fetched.content)

SameFailure(o) == o.ret = ret /\ o.fs = fs

\* C2: in write-to-disk mode, when the pack directory exists and --force is
\* false, runGet fails with the already-exists error and writes nothing; the
\* same call in the state it leaves fails the same way and again writes nothing.
C2_ExistsNoWrite ==
    (Finished /\ ~PipedPlain /\ StatOK(fs0, decision.packDir) /\ ~args.force) =>
        /\ ret = ErrExists(decision.packDir)
        /\ fs = fs0
        /\ out = <<>>
        /\ \A c \in Contents, fault \in Faults :
              SameFailure(Install(fs, args, c, fetched.name, decision.terminal, fault))

\* C2's case: the refused install fetched something else than what is installed.
C2_Witness ==
    /\ Finished /\ ~PipedPlain /\ ~args.force
    /\ ret = ErrExists(decision.packDir)
    /\ SkillPath(decision.packDir) \in DOMAIN fs0.files
    /\ fs0.files[SkillPath(decision.packDir)] # fetched.content

WasInstalled(f, d) == d \in f.dirs /\ SkillPath(d) \in DOMAIN f.files

SameSkill(f, g, d) == Holds(g, SkillPath(d), f.files[SkillPath(d)])

\* C3: of the write-to-disk installs of one pack name into one directory, the
\* first (nothing there yet) succeeds; a later one without --force fails with
\* the already-exists error and leaves SKILL.md as it was; a later one with
\* --force succeeds and SKILL.md then holds the content it fetched. (An install
\* succeeds unless the operating system fails the mkdir or the write.)
C3_RepeatedInstall ==
    (Finished /\ ~PipedPlain) =>
        LET d == decision.packDir
        IN  /\ ~StatOK(fs0, d) =>
                  (~IOFailed(ret) => ret = NilErr /\ Holds(fs, SkillPath(d), fetched.content))
            /\ (WasInstalled(fs0, d) /\ ~args.force) =>
                  (ret = ErrExists(d) /\ SameSkill(fs0, fs, d))
            /\ (WasInstalled(fs0, d) /\ args.force) =>
                  (~IOFailed(ret) => ret = NilErr /\ Holds(fs, SkillPath(d), fetched.content))

\* C3's case: a forced re-install replaced "a" by "b".
C3_Witness ==
    /\ Finished /\ ~PipedPlain /\ args.force /\ ret = NilErr
    /\ WasInstalled(fs0, decision.packDir)
    /\ fs0.files[SkillPath(decision.packDir)] = "a"
    /\ fs.files[SkillPath(decision.packDir)] = "b"

\* The installable name in the words of the specification: the last path
\* segment of a GitHub reference with a path, else its repo; the part before
\* the first @ of a registry reference.
ClaimedName(pack) ==
    IF HasPrefix(pack, <<"@">>) \/ HasPrefix(pack, GhPrefix)
    THEN LET segs == Split(IF HasPrefix(pack, <<"@">>) THEN Drop(pack, 1) ELSE Drop(pack, 3), "/")
         IN  IF Len(segs) > 2 THEN segs[Len(segs)] ELSE segs[2]
    ELSE IF Index(pack, "@") = 0 THEN pack ELSE Take(pack, Index(pack, "@") - 1)

ClaimedPath(dir, name) == dir \o <<"/">> \o name \o <<"/">> \o SkillMd

\* File p holds the fetched content and no other file was created or changed.
OnlyWrote(p) ==
    /\ Holds(fs, p, fetched.content)
    /\ DOMAIN fs0.files \subseteq DOMAIN fs.files
    /\ \A q \in DOMAIN fs.files \ {p} : q \in DOMAIN fs0.files /\ fs.files[q] = fs0.files[q]

\* C4: every successful write-to-disk install writes the fetched content to
\* <resolved_dir>/<resolvedName>/SKILL.md and to no other file, whichever of
\* SKILL.md, CONTEXT.md, PROMPT.md it was fetched as.
C4_WritesSkillMd ==
    (Finished /\ ~PipedPlain /\ ret = NilErr) =>
        OnlyWrote(ClaimedPath(InstallPath(fs0, args.outputDir), ClaimedName(args.pack)))

\* C4's case: content fetched as PROMPT.md from a nested path was installed.
C4_Witness ==
    /\ Finished /\ ~PipedPlain /\ ret = NilErr
    /\ fetched.file = "PROMPT.md"
    /\ call.source = "github" /\ Index(call.path, "/") # 0

ClaimedOrder == <<"SKILL.md", "CONTEXT.md", "PROMPT.md">>

ByMech(mech) == SelectSeq(log, LAMBDA e : e.mech = mech)

InOrder(es) == Len(es) <= 3 /\ \A k \in 1..Len(es) : es[k].file = ClaimedOrder[k]

\* C5: within each mechanism the filenames are attempted in the order SKILL.md,
\* CONTEXT.md, PROMPT.md, and the first successful attempt ends the fetch: only
\* the last attempt made can be a success, and none follows it.
C5_OrderedShortCircuit ==
    /\ InOrder(ByMech("tool"))
    /\ InOrder(ByMech("raw"))
    /\ \A k \in 1..(Len(log) - 1) : ~log[k].ok
    /\ (Len(log) > 0 /\ log[Len(log)].ok) => pc = "fetched"

\* C5's case: CONTEXT.md was found, and PROMPT.md is not attempted.
C5_Witness ==
    /\ pc = "fetched" /\ fetched.file = "CONTEXT.md"
    /\ Len(log) = 2 /\ log[2].ok /\ log[2].file = "CONTEXT.md"

NextFile(file) == IF file = "SKILL.md" THEN "CONTEXT.md" ELSE "PROMPT.md"

\* C6: with gh on the path all three filenames are attempted through it, and
\* have failed, before any raw HTTP request; without gh no attempt goes through
\* it; a non-200 raw response moves on to the next filename.
C6_ToolBeforeRaw ==
    /\ ~gh => \A k \in 1..Len(log) : log[k].mech # "tool"
    /\ gh => \A k \in 1..Len(log) :
                log[k].mech = "raw" =>
                    k > 3 /\ \A j \in 1..3 : log[j].mech = "tool" /\ ~log[j].ok
    /\ (Len(log) > 0 /\ log[Len(log)].mech = "raw" /\ ~resp.err /\ resp.status # 200) =>
          /\ ~log[Len(log)].ok
          /\ IF log[Len(log)].file = "PROMPT.md"
             THEN pc = "done"
             ELSE pc \in {"raw", "blocked"} /\ contentFiles[i] = NextFile(log[Len(log)].file)

\* C6's case: the three tool attempts failed, raw SKILL.md answered 404 and
\* raw CONTEXT.md is next.
C6_Witness ==
    /\ gh /\ pc = "raw" /\ Len(log) = 4
    /\ log[4].mech = "raw" /\ resp.status = 404 /\ i = 2

\* C7: a GitHub-direct fetch never succeeds with empty content from the tool.
C7_ToolNeverEmpty ==
    (pc = "fetched" /\ Len(log) > 0 /\ log[Len(log)].mech = "tool") =>
        fetched.content # ""

AllFailed == Len(log) = (IF gh THEN 6 ELSE 3) /\ \A k \in 1..Len(log) : ~log[k].ok

Listed(names) == {names[k] : k \in 1..Len(names)}

\* C8: a GitHub-direct fetch fails with the not-found error exactly when every
\* applicable attempt was made and failed; it makes at most 6 attempts, none
\* twice, and the error lists the filenames that were tried.
C8_NotFound ==
    call.source = "github" =>
        /\ (ret.kind = "pack not found") <=> AllFailed
        /\ Len(log) <= 6
        /\ \A j, k \in 1..Len(log) :
              j # k => <<log[j].mech, log[j].file>> # <<log[k].mech, log[k].file>>
        /\ ret.kind = "pack not found" =>
              (pc = "done" /\ Listed(ret.extra) = {log[k].file : k \in 1..Len(log)})

\* C8's case: six attempts, all failed.
C8_Witness ==
    /\ call.source = "github" /\ ret.kind = "pack not found" /\ Len(log) = 6

\* C9: a registry reference is fetched by a get-by-name-and-version call to the
\* Registry Client.
C9_RegistryGet ==
    (pc = "fetched" /\ call.source = "registry") =>
        \E k \in 1..Len(log) : log[k].mech = "registry"

\* C10: a registry reference is never resolved through the GitHub mechanisms,
\* nor a GitHub reference through the registry.
C10_NeverMixed ==
    \A k \in 1..Len(log) :
        /\ call.source = "registry" => log[k].mech \notin {"tool", "raw"}
        /\ call.source = "github" => log[k].mech \in {"tool", "raw"}

\* C13: a GitHub reference with fewer than 2 slash-separated segments is
\* refused by the fetch, not before, with the invalid-reference error that
\* states the expected syntax; no tool or HTTP attempt is made, nothing is
\* printed and nothing is written.
C13_DeferredInvalid ==
    (call.source = "github" /\ \A k \in 1..Len(call.ref) : call.ref[k] # "/") =>
        /\ pc = "done"
        /\ ret = Err("invalid GitHub reference", call.ref, <<"@user/repo", "@user/repo/path">>)
        /\ log = <<>>
        /\ out = <<>>
        /\ fs = fs0
        /\ decision.mode = "none"

\* C13's case: gh:u was refused on a second invocation, after a pack was installed.
C13_Witness ==
    /\ pc = "done" /\ args.pack = <<"g", "h", ":", "u">>
    /\ ret.kind = "invalid GitHub reference"
    /\ runs = 2 /\ DOMAIN fs.files # {}

\* runGet returned an error of the fetch
FetchFailed == pc = "done" /\ fetched.file = "" /\ ret # NilErr

\* C14: the error runGet returns for a failed fetch is the error the failing
\* fetch step, getFromGitHub, produced, for GitHub references and registry
\* references alike.
C14_ErrorsUnmodified ==
    FetchFailed =>
        \/ ret = Err("invalid GitHub reference", call.ref, <<"@user/repo", "@user/repo/path">>)
        \/ ret = Err("pack not found", call.ref, <<"SKILL.md", "CONTEXT.md", "PROMPT.md">>)

\* C15: every get invocation terminates, with content, an install or an
\* error, even when a remote endpoint or the helper tool never responds: every
\* call it makes is bounded by a timeout, so runGet is never left in a call
\* that does not return.
C15_Terminates == pc # "blocked"

-----------------------------------------------------------------------------
(* properties of the resolution, under SpecParse *)

Invoked == pc # "idle"

\* The two spellings of the GitHub reference with remainder r
AtForm(r) == <<"@">> \o r

GhForm(r) == <<"g", "h", ":">> \o r

\* What getFromGitHub is called with and parses is what it would be for `pack`.
ResolvedAs(pack) == call = Resolve(pack) /\ call.source = "github"

\* C11: get @r and get gh:r are resolved identically: the same source kind,
\* owner, repo, path and installable name. (Every step after the resolution
\* reads the resolved call and the flags, never the argument.)
C11_ShorthandSame ==
    Invoked =>
        /\ HasPrefix(args.pack, <<"@">>) => ResolvedAs(GhForm(Drop(args.pack, 1)))
        /\ HasPrefix(args.pack, <<"g", "h", ":">>) => ResolvedAs(AtForm(Drop(args.pack, 3)))

\* C11's case: @a/a/a was resolved to owner a, repo a, path a.
C11_Witness ==
    /\ Invoked /\ args.pack = <<"@", "a", "/", "a", "/", "a">>
    /\ call.source = "github" /\ call.user = <<"a">> /\ call.repo = <<"a">>
    /\ call.path = <<"a">> /\ call.ghName = <<"a">>

NoAt(t) == \A k \in 1..Len(t) : t[k] # "@"

IsRegistryInput(pack) ==
    /\ ~(Len(pack) >= 1 /\ pack[1] = "@")
    /\ ~(Len(pack) >= 3 /\ pack[1] = "g" /\ pack[2] = "h" /\ pack[3] = ":")

\* C12: an input that starts with neither @ nor gh: is a registry reference;
\* its name is the text before the first @ and its version the text after it,
\* and without any @ the name is the whole input and the version is "latest".
C12_RegistrySplit ==
    (Invoked /\ IsRegistryInput(args.pack)) =>
        /\ call.source = "registry"
        /\ NoAt(call.name)
        /\ IF NoAt(args.pack)
           THEN call.name = args.pack /\ call.version = <<"l", "a", "t", "e", "s", "t">>
           ELSE args.pack = call.name \o <<"@">> \o call.version

\* C12's case: a@a@a has the name a and the version a@a
C12_Witness ==
    /\ Invoked /\ args.pack = <<"a", "@", "a", "@", "a">>
    /\ call.name = <<"a">> /\ call.version = <<"a", "@", "a">>

-----------------------------------------------------------------------------
(* properties of the telemetry and the registry client *)

EventsFor(name) == {k \in 1..Len(rpcs) : rpcs[k].pack = name}

\* C16: after every successful fetch of a get invocation exactly one telemetry
\* event for that pack is dispatched, before the content is printed or written.
C16_TelemetryAfterFetch ==
    (pc = "done" /\ fetched.file # "") => Cardinality(EventsFor(fetched.name)) = 1

Sent(k) == rpcs[k].status = "sent"

\* C17: Client.Telemetry returns while its RPC is still in flight, and the end
\* of the RPC, failed or not, changes nothing of the caller: not its position,
\* its result, its output or the files.
C17_FireAndForget ==
    [][ /\ Len(rpcs') > Len(rpcs) =>
              (Sent(Len(rpcs))' /\ UNCHANGED <<pc, ret, out, fs>>)
        /\ (Len(rpcs') = Len(rpcs) /\ rpcs' # rpcs) =>
              UNCHANGED <<pc, ret, out, fs, client>> ]_vars

\* C17's case: of two events one RPC failed and the other never ended, and the
\* command goes on without an error.
C17_Witness ==
    /\ pc = "api" /\ Len(rpcs) = 2
    /\ rpcs[1].status = "failed" /\ rpcs[2].status = "sent"
    /\ ret = NilErr

\* C20: with PACKS_REGISTRY set to a non-empty URL every client api.New creates
\* sends its requests to that URL, and without it to the default registry URL.
C20_RegistryOverride ==
    client # NoClient =>
        client.baseURL = (IF env.registry # "" THEN env.registry ELSE "https://packs-api.fly.dev")

-----------------------------------------------------------------------------
(* properties of the destination directory, under SpecDetect *)

InHome(name) == Home \o <<"/">> \o name

IsDirIn(f, q) == q \in f.dirs

IsFileIn(f, q) == q \in DOMAIN f.files

ExistsIn(f, q) == IsDirIn(f, q) \/ IsFileIn(f, q)

\* The destination directory as the claim states it, Present(f, q) being what
\* it takes for an agent's home directory q to match.
ClaimedDir(f, outputDir, Present(_, _)) ==
    IF outputDir # <<>> THEN outputDir
    ELSE IF Present(f, InHome(DotClaude)) THEN InHome(DotClaude) \o <<"/">> \o Skills
    ELSE IF IsDirIn(f, Skills) \/ IsFileIn(f, AgentsMd) \/ IsFileIn(f, SoulMd) THEN Skills
    ELSE IF Present(f, InHome(DotCodex)) THEN InHome(DotCodex) \o <<"/">> \o Skills
    ELSE IF Present(f, InHome(DotCursor)) THEN InHome(DotCursor) \o <<"/">> \o Skills
    ELSE InHome(DotPacks) \o <<"/">> \o Skills

InstallsUnder(dir) == decision.packDir = dir \o <<"/">> \o fetched.name

C19_SkillsDirOverride ==
    (Finished /\ ~PipedPlain /\ args.outputDir = <<>> /\ env.skillsDir # <<>>) =>
        InstallsUnder(env.skillsDir)

-----------------------------------------------------------------------------
(* properties of the TUI, under SpecTui and SpecNav *)

\* The program is over: RunTUI is past p.Run and what follows it, or died.
TuiOver == pc \notin {"idle", "tui", "tuiquit"}

\* The key that ended the program was an install key: g in the list view with
\* a non-empty list, Enter or g in the detail view.
EndedByInstallKey ==
    /\ hist.end # <<>>
    /\ \/ hist.end[1].mode = "list" /\ hist.end[1].key = "g" /\ hist.end[1].listed > 0
       \/ hist.end[1].mode = "detail" /\ hist.end[1].key \in {"enter", "g"}

\* C21: once the TUI is over, get has run exactly when the program ended
\* through an install key, and then for the name of the pack that was under the
\* cursor when it was selected, with no output directory and no flag.
C21_InstallOnInstallKey ==
    TuiOver =>
        /\ runs = 1 <=> EndedByInstallKey
        /\ runs = 1 =>
              /\ hist.picked # <<>>
              /\ args = [pack |-> hist.picked[1].name, outputDir |-> <<>>,
                         install |-> FALSE, force |-> FALSE]

\* The cursor is on an item of the list and the page is the one that shows it.
OnItem(mm) == InRange(mm) /\ mm.page = mm.cursor \div pageSize

LastPage(mm) == (Len(mm.filtered) - 1) \div pageSize

\* C22: in the list view, from a state whose cursor is on an item of the list
\* with page = cursor div 15, every navigation key leaves the cursor on an
\* item, page = cursor div 15 and page <= (len - 1) div 15; left/h/pgup and
\* right/l/pgdown move exactly one page and put the cursor on the first item
\* of the new page; up at the first item, down at the last item, left on the
\* first page and right on the last page change nothing.
C22_NavigationInList ==
    (pc = "tui" /\ m.mode = "list" /\ m.filtered # <<>>) =>
        /\ OnItem(m)
        /\ \A key \in NavKeys :
              LET n == UpdateKey(m, key).m
              IN  /\ OnItem(n)
                  /\ n.page <= LastPage(n)
                  /\ [n EXCEPT !.cursor = 0, !.page = 0]
                        = [m EXCEPT !.cursor = 0, !.page = 0]
                  /\ key \in {"up", "k"} =>
                        n.cursor = IF m.cursor = 0 THEN 0 ELSE m.cursor - 1
                  /\ key \in {"down", "j"} =>
                        n.cursor = IF m.cursor = Len(m.filtered) - 1
                                   THEN m.cursor ELSE m.cursor + 1
                  /\ key \in {"left", "h", "pgup"} =>
                        IF m.page = 0 THEN n = m
                        ELSE n.page = m.page - 1 /\ n.cursor = n.page * pageSize
                  /\ key \in {"right", "l", "pgdown"} =>
                        IF m.page = LastPage(m) THEN n = m
                        ELSE n.page = m.page + 1 /\ n.cursor = n.page * pageSize

\* C22's case: the cursor was moved to the only item of the third page.
C22_Witness ==
    /\ pc = "tui" /\ m.mode = "list"
    /\ Len(m.filtered) = 2 * pageSize + 1
    /\ m.cursor = 2 * pageSize /\ m.page = 2

\* C25: in every state of the running TUI the list is empty or the cursor is
\* on one of its items, so that Enter and g never index outside the list.
C25_CursorInList ==
    /\ pc = "tui" => (m.filtered = <<>> \/ InRange(m))
    /\ pc # "panic"

\* The packs that the fetch issued for the current type filter answers with
ForCurrentFilter == fetchPacks(m.filter)

\* C26: whenever the TUI is not loading and shows no error, the packs it holds
\* are the answer to the fetch issued for the current type filter.
C26_ListOfCurrentFilter ==
    (pc = "tui" /\ ~m.loading /\ m.err = NoErr) => m.packs = ForCurrentFilter

\* C27: in every state of the running TUI the displayed list is exactly the
\* loaded packs that match the confirmed search query.
C27_FilteredMatchesQuery ==
    pc = "tui" => m.filtered = Matching(m.packs, m.searchQuery)

-----------------------------------------------------------------------------
(* properties of find and submit, under SpecCli *)

\* find has returned after its search call failed.
FellBack == pc = "done" /\ args.cmd = "find" /\ ~resp.ok

\* The demo entry matches the query and the type filter of the command.
Wanted(p) ==
    /\ \/ args.query = <<>>
       \/ Contains(ToLower(p.name), ToLower(args.query))
       \/ Contains(ToLower(p.description), ToLower(args.query))
    /\ args.packType # "" => p.packType = args.packType

\* C23: when the search call fails, find returns no error and lists, from the
\* demo list and in its order, exactly the entries whose name or description
\* contains the query case-insensitively (all of them for the empty query)
\* and whose type is the type filter when one is given: the first `limit` of
\* them when limit > 0, all of them when limit <= 0.
C23_OfflineFallback ==
    FellBack =>
        LET wanted == SelectSeq(getDemoPacks, Wanted)
            listed == out[1].packs
        IN  /\ ret = NilErr
            /\ Len(out) = 1 /\ out[1].offline
            /\ Len(listed) = IF args.limit > 0 /\ args.limit < Len(wanted)
                             THEN args.limit ELSE Len(wanted)
            /\ listed = SubSeq(wanted, 1, Len(listed))

\* C23's case: find GIT --type skill --limit 1 fell back and listed the first
\* of the two skills that mention git, changelog-generator.
C23_Witness ==
    /\ FellBack
    /\ args.query = <<"G", "I", "T">> /\ args.packType = "skill" /\ args.limit = 1
    /\ Len(out[1].packs) = 1
    /\ out[1].packs[1].name = getDemoPacks[7].name
    /\ Len(SelectSeq(getDemoPacks, Wanted)) = 2

\* The argument of submit without its one leading @ or gh:
Stripped ==
    IF args.ref # <<>> /\ args.ref[1] = "@" THEN Drop(args.ref, 1)
    ELSE IF Len(args.ref) >= 3 /\ Take(args.ref, 3) = <<"g", "h", ":">>
    THEN Drop(args.ref, 3)
    ELSE args.ref

\* C24: submit strips one leading @ or gh: and rejects every reference of
\* fewer than three slash-separated segments with an invalid-reference error
\* and without a call to the registry; otherwise it makes exactly one Submit
\* call, carrying the stripped reference, and returns an error exactly when
\* that call fails.
C24_SubmitValidates ==
    (pc \in {"submit", "done"} /\ args.cmd = "submit") =>
        IF Len(Split(Stripped, "/")) < 3
        THEN /\ pc = "done"
             /\ ret = ErrSubmitRef(Stripped)
             /\ log = <<>>
        ELSE /\ log = <<[rpc |-> "Submit", githubRef |-> Stripped]>>
             /\ pc = "done" => (ret # NilErr <=> ~resp.ok)

\* C24's case: submit @a/a, the root-level form that get accepts, was
\* rejected without a call.
C24_Witness ==
    /\ pc = "done" /\ args.cmd = "submit"
    /\ args.ref = <<"@", "a", "/", "a">>
    /\ Resolve(args.ref).valid
    /\ ret.kind = "invalid reference" /\ log = <<>>

-----------------------------------------------------------------------------
(* properties of the install, under SpecInstall and Spec *)

\* runGet wrote to disk and returned nil.
InstalledOK == Finished /\ decision.mode = "disk" /\ ret = NilErr

\* The directory the install resolved: --output, or the detected one
ResolvedDir == Clean(InstallPath(fs0, args.outputDir))

\* C28: the file a successful get writes is <dir>/<one component>/SKILL.md
\* for the resolved directory <dir>: its directory is a direct child of <dir>,
\* not <dir> itself, its parent or a place outside of it.
C28_InsideResolvedDir ==
    InstalledOK =>
        /\ Holds(fs, SkillPath(decision.packDir), fetched.content)
        /\ Base(SkillPath(decision.packDir)) = SkillMd
        /\ Dir(SkillPath(decision.packDir)) = decision.packDir
        /\ Dir(decision.packDir) = ResolvedDir
        /\ decision.packDir # ResolvedDir

\* C29: when runGet returns an error, the filesystem is what it was before
\* the call: no directory was created, no file created or modified.
C29_FailureLeavesNoTrace ==
    (pc = "done" /\ args # NoArgs /\ ret # NilErr) => fs = fs0

\* The install was forced into a pack directory that existed.
ForcedOver == InstalledOK /\ args.force /\ decision.packDir \in fs0.dirs

\* C30: a successful install with --force into an existing pack directory
\* creates or replaces SKILL.md in it and nothing else: the directories are
\* the same, and so is every other file, inside the pack directory or not.
C30_ForceOnlySkillMd ==
    ForcedOver =>
        /\ fs.dirs = fs0.dirs
        /\ DOMAIN fs.files = DOMAIN fs0.files \cup {SkillPath(decision.packDir)}
        /\ \A p \in DOMAIN fs0.files :
              p # SkillPath(decision.packDir) => fs.files[p] = fs0.files[p]
        /\ Holds(fs, SkillPath(decision.packDir), fetched.content)

\* C30's case: the pack directory held SKILL.md with another content, notes
\* and sub/k, and SKILL.md was replaced.
C30_Witness ==
    /\ ForcedOver
    /\ decision.packDir = DefaultPackDir
    /\ Holds(fs0, SkillPath(DefaultPackDir), "b")
    /\ Holds(fs, SkillPath(DefaultPackDir), "a")
    /\ Holds(fs, Join(DefaultPackDir, <<"n", "o", "t", "e", "s">>), "a")
    /\ Join(DefaultPackDir, <<"s", "u", "b">>) \in fs.dirs

=============================================================================
